---- MODULE Spec2Model ----
(***************************************************************************)
(* Model of src/script.js: the claims map.  A year's CSV is loaded         *)
(* asynchronously (loadYearData), filtered by the three filter inputs      *)
(* (applyFilters) and rendered as markers with a published count           *)
(* (updateMap, updateClaimCount).                                          *)
(*                                                                         *)
(* Strings are sequences of one-character strings, so that trim(),         *)
(* toLowerCase(), parseFloat() and Date parsing are computed on the text.  *)
(* An optional field of a CSV row is <<>> when the column is absent        *)
(* (undefined in JavaScript) and <<s>> when it holds the string s.         *)
(***************************************************************************)
EXTENDS Integers, Sequences, FiniteSets, TLC

(***************************************************************************)
(* Bounds of the model.                                                    *)
(***************************************************************************)
\* rows in one CSV response
MaxRows == 2
\* loads that may be outstanding at once
MaxPending == 2

(***************************************************************************)
(* JavaScript string primitives.                                           *)
(***************************************************************************)
Upper == <<"A","B","C","D","E","F","G","H","I","J","K","L","M",
           "N","O","P","Q","R","S","T","U","V","W","X","Y","Z">>

Lower == <<"a","b","c","d","e","f","g","h","i","j","k","l","m",
           "n","o","p","q","r","s","t","u","v","w","x","y","z">>

WhiteSpace == {" ", "\t", "\n", "\r"}

Digits == <<"0","1","2","3","4","5","6","7","8","9">>

IsDigit(c) == \E i \in 1..10 : Digits[i] = c

DigitVal(c) == (CHOOSE i \in 1..10 : Digits[i] = c) - 1

\* String.prototype.toLowerCase, one character
LowerChar(c) ==
  IF \E i \in 1..26 : Upper[i] = c
    THEN Lower[CHOOSE i \in 1..26 : Upper[i] = c]
    ELSE c

\* String.prototype.toLowerCase
ToLowerCase(s) == [i \in 1..Len(s) |-> LowerChar(s[i])]

\* String.prototype.trim: the text between the first and the last
\* non-whitespace character
Trim(s) ==
  LET keep == {i \in 1..Len(s) : s[i] \notin WhiteSpace}
  IN IF keep = {} THEN <<>>
     ELSE LET lo == CHOOSE i \in keep : \A j \in keep : i <= j
              hi == CHOOSE i \in keep : \A j \in keep : j <= i
          IN SubSeq(s, lo, hi)

\* s.trim().toLowerCase()
Normalize(s) == ToLowerCase(Trim(s))

\* whether p is a prefix of s
StartsWith(s, p) == Len(p) <= Len(s) /\ SubSeq(s, 1, Len(p)) = p

(***************************************************************************)
(* Numbers and dates.                                                      *)
(*                                                                         *)
(* A Number is [kind, neg, mag]: kind "nan", "inf" or "num"; mag is the    *)
(* text of the unsigned decimal literal that was read.  A time value is    *)
(* [kind, t]: kind "nan" (Invalid Date) or "time", t in days since         *)
(* 1970-01-01 UTC (the time value of a date-only ISO string is UTC         *)
(* midnight, a whole number of days).                                      *)
(***************************************************************************)
NaN == [kind |-> "nan", neg |-> FALSE, mag |-> <<>>]

\* the text "Infinity"
InfinityText == <<"I","n","f","i","n","i","t","y">>

\* length of the longest prefix of s made of decimal digits
RECURSIVE DigitPrefixLen(_)
DigitPrefixLen(s) ==
  IF s # <<>> /\ IsDigit(Head(s)) THEN 1 + DigitPrefixLen(Tail(s)) ELSE 0

\* String.prototype.trimStart, as parseFloat applies it to its argument
RECURSIVE TrimStart(_)
TrimStart(s) ==
  IF s # <<>> /\ Head(s) \in WhiteSpace THEN TrimStart(Tail(s)) ELSE s

\* parseFloat of a string: leading whitespace is skipped, then the longest
\* prefix that is a decimal literal is read (sign, Infinity, digits with an
\* optional fraction); NaN when there is none.  The coordinate texts drawn
\* in this model carry no exponent part.
ParseFloatText(s) ==
  LET t    == TrimStart(s)
      sgn  == t # <<>> /\ Head(t) \in {"+", "-"}
      neg  == t # <<>> /\ Head(t) = "-"
      r    == IF sgn THEN Tail(t) ELSE t
      n1   == DigitPrefixLen(r)
      dot  == Len(r) > n1 /\ r[n1 + 1] = "."
      n2   == IF dot THEN DigitPrefixLen(SubSeq(r, n1 + 2, Len(r))) ELSE 0
      len  == IF dot /\ (n1 > 0 \/ n2 > 0) THEN n1 + 1 + n2 ELSE n1
  IN IF StartsWith(r, InfinityText)
       THEN [kind |-> "inf", neg |-> neg, mag |-> <<>>]
     ELSE IF n1 = 0 /\ n2 = 0
       THEN NaN
     ELSE [kind |-> "num", neg |-> neg, mag |-> SubSeq(r, 1, len)]

\* parseFloat(row.field): an absent field is undefined, which reads as NaN
ParseFloat(f) == IF f = <<>> THEN NaN ELSE ParseFloatText(f[1])

\* the global isNaN
IsNaN(x) == x.kind = "nan"

InvalidDate == [kind |-> "nan", t |-> 0]

\* the number written by the digits s[a..b]
RECURSIVE NumberAt(_, _, _)
NumberAt(s, a, b) ==
  IF a > b THEN 0 ELSE NumberAt(s, a, b - 1) * 10 + DigitVal(s[b])

IsLeapYear(y) == (y % 4 = 0 /\ y % 100 # 0) \/ y % 400 = 0

DaysInMonth(y, m) ==
  IF m = 2 THEN (IF IsLeapYear(y) THEN 29 ELSE 28)
  ELSE IF m \in {4, 6, 9, 11} THEN 30 ELSE 31

\* days from 1970-01-01 to the first day of year y: 365 a year and one more
\* for every leap year before y
DaysBeforeYear(y) ==
  365 * (y - 1970) + ((y - 1969) \div 4) - ((y - 1901) \div 100)
    + ((y - 1601) \div 400)

\* days from the first day of year y to the first day of its month m
RECURSIVE DaysBeforeMonth(_, _)
DaysBeforeMonth(y, m) ==
  IF m <= 1 THEN 0 ELSE DaysBeforeMonth(y, m - 1) + DaysInMonth(y, m - 1)

\* new Date(text) for a date-only ISO text YYYY-MM-DD: its UTC midnight;
\* Invalid Date for a text of another shape or with a month or day out of
\* range.  The date texts drawn in this model are either of that shape or
\* hold no digit at all.
DateParseText(s) ==
  IF /\ Len(s) = 10
     /\ s[5] = "-" /\ s[8] = "-"
     /\ \A i \in {1, 2, 3, 4, 6, 7, 9, 10} : IsDigit(s[i])
  THEN LET y == NumberAt(s, 1, 4)
           m == NumberAt(s, 6, 7)
           d == NumberAt(s, 9, 10)
       IN IF m \in 1..12 /\ d \in 1..DaysInMonth(y, m)
            THEN [kind |-> "time",
                  t |-> DaysBeforeYear(y) + DaysBeforeMonth(y, m) + d - 1]
            ELSE InvalidDate
  ELSE InvalidDate

\* new Date(row.date): an absent field is undefined, an Invalid Date
NewDate(f) == IF f = <<>> THEN InvalidDate ELSE DateParseText(f[1])

\* a comparison that an Invalid Date on the left passes
DateGEOrInvalid(a, b) ==
  a.kind # "time" \/ (b.kind = "time" /\ a.t >= b.t)

\* a >= b on two Date objects: false when either is an Invalid Date
DateGE(a, b) == a.kind = "time" /\ b.kind = "time" /\ a.t >= b.t

\* a <= b on two Date objects: false when either is an Invalid Date
DateLE(a, b) == a.kind = "time" /\ b.kind = "time" /\ a.t <= b.t

(***************************************************************************)
(* Texts of the program and of the data drawn for it.                      *)
(***************************************************************************)
Txt_pothole == <<"p","o","t","h","o","l","e">>

Txt_property_damage == <<"p","r","o","p","e","r","t","y"," ","d","a","m","a","g","e">>

Txt_slip_and_fall == <<"s","l","i","p"," ","a","n","d"," ","f","a","l","l">>

Txt_trip_and_fall == <<"t","r","i","p"," ","a","n","d"," ","f","a","l","l">>

Txt_other == <<"o","t","h","e","r">>

\* names every object inherits from Object.prototype that are their own
\* lowercase form: typeColors[key] finds them although typeColors does not
\* define them
Txt_constructor == <<"c","o","n","s","t","r","u","c","t","o","r">>

Txt_proto == <<"_","_","p","r","o","t","o","_","_">>

\* the keys of typeColors, in order
TypeColorKeys ==
  <<Txt_pothole, Txt_property_damage, Txt_slip_and_fall, Txt_trip_and_fall,
    Txt_other>>

\* the values of typeColors, in the order of TypeColorKeys
TypeColorValues == <<"red", "orange", "blue", "green", "gray">>

\* typeColors[key]: the mapped colour, an inherited member of
\* Object.prototype, or undefined (the empty string here, falsy like it)
typeColors(key) ==
  IF \E i \in 1..Len(TypeColorKeys) : TypeColorKeys[i] = key
    THEN TypeColorValues[CHOOSE i \in 1..Len(TypeColorKeys) :
                           TypeColorKeys[i] = key]
  ELSE IF key = Txt_constructor THEN "[function Object]"
  ELSE IF key = Txt_proto THEN "[object Object]"
  ELSE ""

\* standardTypes of applyFilters
standardTypes ==
  {Txt_pothole, Txt_property_damage, Txt_slip_and_fall, Txt_trip_and_fall}

\* (row.type || ''): the type text, empty when the field is absent
TypeOrEmpty(row) == IF row.type = <<>> THEN <<>> ELSE row.type[1]

\* JavaScript truthiness of a row field: present and not the empty string
Truthy(f) == f # <<>> /\ f[1] # <<>>

(***************************************************************************)
(* The data and the inputs drawn.  A CSV row is [type, date, latitude,     *)
(* longitude]; location_desc is written to the popup only and is left      *)
(* out.                                                                    *)
(***************************************************************************)
Txt_Pothole == <<"P","o","t","h","o","l","e">>

Txt_Bogus == <<"B","o","g","u","s">>

Txt_Property_Damage_sp == <<"P","r","o","p","e","r","t","y"," ","D","a","m","a","g","e"," ">>

Txt_graffiti == <<"g","r","a","f","f","i","t","i">>

Txt_Constructor == <<"C","o","n","s","t","r","u","c","t","o","r">>

Txt_Other_sp == <<" ","O","t","h","e","r">>

Txt_NA == <<"N","/","A">>

Txt_soon == <<"s","o","o","n">>

Txt_2025_03_01 == <<"2","0","2","5","-","0","3","-","0","1">>

Txt_2025_05_01 == <<"2","0","2","5","-","0","5","-","0","1">>

Txt_2025_06_01 == <<"2","0","2","5","-","0","6","-","0","1">>

Txt_2026_03_01 == <<"2","0","2","6","-","0","3","-","0","1">>

Txt_43_9 == <<"4","3",".","9">>

Txt_43_91 == <<"4","3",".","9","1">>

Txt_m78_86 == <<"-","7","8",".","8","6">>

Txt_m78_85 == <<"-","7","8",".","8","5">>

Row(type, date, latitude, longitude) ==
  [type |-> type, date |-> date, latitude |-> latitude,
   longitude |-> longitude]

\* The row objects Papa.parse creates.  The program never changes a row: it
\* holds references to them, here their names.
Cells ==
  [Pothole        |-> Row(<<Txt_Pothole>>, <<Txt_2025_03_01>>,
                          <<Txt_43_9>>, <<Txt_m78_86>>),
   Bogus          |-> Row(<<Txt_Bogus>>, <<Txt_2025_06_01>>,
                          <<Txt_43_91>>, <<Txt_m78_85>>),
   PropertyDamage |-> Row(<<Txt_Property_Damage_sp>>, <<Txt_2025_05_01>>,
                          <<Txt_43_91>>, <<Txt_m78_86>>),
   \* a date that does not parse
   Graffiti       |-> Row(<<Txt_graffiti>>, <<Txt_NA>>,
                          <<Txt_43_9>>, <<Txt_m78_85>>),
   \* neither a type nor a date
   Bare           |-> Row(<<>>, <<>>, <<Txt_43_9>>, <<Txt_m78_86>>),
   \* a type that is the name of a member every object inherits
   Ctor           |-> Row(<<Txt_Constructor>>, <<Txt_2025_06_01>>,
                          <<Txt_43_91>>, <<Txt_m78_86>>),
   \* a latitude that is text and no number
   BadLat         |-> Row(<<Txt_Bogus>>, <<Txt_2025_05_01>>,
                          <<Txt_NA>>, <<Txt_m78_86>>),
   \* a line too short to have a longitude
   NoLon          |-> Row(<<Txt_Bogus>>, <<Txt_2025_06_01>>,
                          <<Txt_43_9>>, <<>>),
   Pothole26      |-> Row(<<Txt_Pothole>>, <<Txt_2026_03_01>>,
                          <<Txt_43_91>>, <<Txt_m78_85>>),
   \* a latitude that reads as an infinity
   InfLat         |-> Row(<<Txt_Bogus>>, <<Txt_2026_03_01>>,
                          <<InfinityText>>, <<Txt_m78_86>>),
   \* an empty latitude field
   EmptyLat       |-> Row(<<Txt_Pothole>>, <<Txt_2026_03_01>>,
                          <<<<>>>>, <<Txt_m78_86>>)]

\* every row of the model
AllRows == DOMAIN Cells

\* the year-select options
Years == {"2025", "2026"}

\* the rows claims_<year>.csv may hold when the whole page is studied
FileRows ==
  [year \in Years |->
     IF year = "2025" THEN {"Pothole", "BadLat", "NoLon"}
     ELSE {"Pothole26", "InfLat", "EmptyLat"}]

\* the rows of the loaded dataset when the filter is studied
StudyRows ==
  {"Pothole", "Bogus", "PropertyDamage", "Graffiti", "Bare", "Ctor"}

\* all sequences of length at most n of distinct elements of S: Papa.parse
\* creates one object for each line of the CSV, so no row is in an array
\* twice
SeqsUpTo(S, n) ==
  {s \in UNION {[1..k -> S] : k \in 0..n} :
     \A i, j \in DOMAIN s : i # j => s[i] # s[j]}

\* the arrays the complete callback of a year may be handed as results.data
Responses == [year \in Years |-> SeqsUpTo(FileRows[year], MaxRows)]

\* values the user gives the start-date and end-date inputs
DateInputs == {<<>>, Txt_2025_03_01, Txt_2025_05_01, Txt_2025_06_01, Txt_soon}

\* values the user gives the type selector
TypeInputs ==
  {<<>>, Txt_pothole, Txt_property_damage, Txt_other, Txt_Other_sp,
   Txt_graffiti}

\* the values among them the user gives when the whole page is studied
PageDateInputs == {<<>>, Txt_2025_05_01}

PageTypeInputs == {<<>>, Txt_other}

(***************************************************************************)
(* applyFilters and updateMap as functions of the dataset and the inputs.  *)
(***************************************************************************)
\* startDateVal ? new Date(startDateVal) : null -- null is <<>>, a Date d
\* is <<d>>
DateBound(val) == IF val = <<>> THEN <<>> ELSE <<DateParseText(val)>>

\* a type test whose selection other matches every row
TypeMatchOtherAny(selected, type) ==
  \/ selected = <<>>
  \/ selected = Txt_other
  \/ selected = type

\* typeMatch of applyFilters
TypeMatch(selected, type) ==
  \/ selected = <<>>
  \/ (selected = Txt_other /\ type \notin standardTypes)
  \/ selected = type

\* a start test that compares also when no start bound is set: against null
\* a Date compares by its time value, and an Invalid Date fails
StartOkNoNullCheck(startDate, date) ==
  IF startDate = <<>> THEN date.kind = "time"
  ELSE DateGE(date, startDate[1])

\* startOk of applyFilters
StartOk(startDate, date) ==
  startDate = <<>> \/ DateGE(date, startDate[1])

\* an end bound that excludes the day of the bound itself
EndOkExclusive(endDate, date) ==
  endDate = <<>> \/ (DateLE(date, endDate[1]) /\ date # endDate[1])

\* endOk of applyFilters
EndOk(endDate, date) ==
  endDate = <<>> \/ DateLE(date, endDate[1])

\* selectedType of applyFilters, for each value of the type selector
selectedType == [v \in TypeInputs |-> Normalize(v)]

\* startDate and endDate of applyFilters, for each value of a date input
dateBound == [v \in DateInputs |-> DateBound(v)]

\* rowType of applyFilters, for each row
rowType == [row \in AllRows |-> Normalize(TypeOrEmpty(Cells[row]))]

\* rowDate of applyFilters, for each row
rowDate == [row \in AllRows |-> NewDate(Cells[row].date)]

\* the callback of allData.filter in applyFilters
RowPasses(row, startVal, endVal, typeVal) ==
  /\ TypeMatch(selectedType[typeVal], rowType[row])
  /\ StartOk(dateBound[startVal], rowDate[row])
  /\ EndOk(dateBound[endVal], rowDate[row])

\* a filter that collects the passing elements last to first
RECURSIVE FilterRowsReversed(_, _, _, _)
FilterRowsReversed(data, startVal, endVal, typeVal) ==
  IF data = <<>> THEN <<>>
  ELSE LET rest == FilterRowsReversed(Tail(data), startVal, endVal, typeVal)
       IN IF RowPasses(Head(data), startVal, endVal, typeVal)
            THEN rest \o <<Head(data)>>
            ELSE rest

\* a filter that removes the failing elements from the array it walks: the
\* element after a removed one moves into its place and is never tested
RECURSIVE FilterRowsSplicing(_, _, _, _)
FilterRowsSplicing(data, startVal, endVal, typeVal) ==
  IF data = <<>> THEN <<>>
  ELSE IF RowPasses(Head(data), startVal, endVal, typeVal)
    THEN <<Head(data)>>
           \o FilterRowsSplicing(Tail(data), startVal, endVal, typeVal)
  ELSE IF Tail(data) = <<>> THEN <<>>
  ELSE <<Head(Tail(data))>>
         \o FilterRowsSplicing(Tail(Tail(data)), startVal, endVal, typeVal)

\* Array.prototype.filter: the elements that pass, in their order
RECURSIVE FilterRows(_, _, _, _)
FilterRows(data, startVal, endVal, typeVal) ==
  IF data = <<>> THEN <<>>
  ELSE LET rest == FilterRows(Tail(data), startVal, endVal, typeVal)
       IN IF RowPasses(Head(data), startVal, endVal, typeVal)
            THEN <<Head(data)>> \o rest
            ELSE rest

\* the test of updateMap that lets a row become a marker
HasMarker(row) ==
  ~ (IsNaN(ParseFloat(row.latitude)) \/ IsNaN(ParseFloat(row.longitude)))

\* typeColors[typeKey] || typeColors.other
ColorOf(row) ==
  LET typeKey == Normalize(TypeOrEmpty(row))
  IN IF typeColors(typeKey) # "" THEN typeColors(typeKey)
     ELSE typeColors(Txt_other)

\* the marker updateMap builds for the row named row: its position, its
\* colour and the row its popup is written from
MarkerOf(row) ==
  [lat   |-> ParseFloat(Cells[row].latitude),
   lon   |-> ParseFloat(Cells[row].longitude),
   color |-> ColorOf(Cells[row]),
   row   |-> row]

\* HasMarker and MarkerOf, for each row
hasMarker == [row \in AllRows |-> HasMarker(Cells[row])]

markerOf == [row \in AllRows |-> MarkerOf(row)]

\* the layers of markerClusterGroup after updateMap(data)
RECURSIVE MarkersOf(_)
MarkersOf(data) ==
  IF data = <<>> THEN <<>>
  ELSE IF hasMarker[Head(data)]
    THEN <<markerOf[Head(data)]>> \o MarkersOf(Tail(data))
    ELSE MarkersOf(Tail(data))

\* the count updateMap publishes for data
PublishedCount(data) == Len(data)

\* row.latitude && row.longitude
IsPresent(row) == Truthy(row.latitude) /\ Truthy(row.longitude)

\* IsPresent, for each row
present == [row \in AllRows |-> IsPresent(Cells[row])]

\* results.data.filter(row => row.latitude && row.longitude)
RECURSIVE PresentRows(_)
PresentRows(data) ==
  IF data = <<>> THEN <<>>
  ELSE IF present[Head(data)]
    THEN <<Head(data)>> \o PresentRows(Tail(data))
    ELSE PresentRows(Tail(data))

(***************************************************************************)
(* The state of the page.                                                  *)
(***************************************************************************)
VARIABLES
  allData,        \* the in-memory dataset
  currentYear,    \* the year of the last load issued
  yearSelect,     \* value of the year selector
  startDateVal,   \* value of the start-date input
  endDateVal,     \* value of the end-date input
  typeSelectVal,  \* value of the type selector
  markers,        \* the layers of markerClusterGroup, in the order added
  claimCount,     \* the number written to the claim-count element
  pending,        \* per year, the Papa.parse downloads not yet called back
  ready           \* whether DOMContentLoaded has been delivered

vars ==
  <<allData, currentYear, yearSelect, startDateVal, endDateVal,
    typeSelectVal, markers, claimCount, pending, ready>>

inputs == <<startDateVal, endDateVal, typeSelectVal>>

\* number of loads outstanding
Outstanding == pending["2025"] + pending["2026"]

\* an applyFilters() that renders the dataset whole, whatever the inputs
\* hold
ApplyFiltersNoSpec(data) ==
  /\ markers' = MarkersOf(data)
  /\ claimCount' = PublishedCount(data)

\* applyFilters() on dataset data: filter by the inputs as they are now,
\* render the result and publish its count
ApplyFilters(data) ==
  LET filtered == FilterRows(data, startDateVal', endDateVal', typeSelectVal')
  IN /\ markers' = MarkersOf(filtered)
     /\ claimCount' = PublishedCount(filtered)

\* loadYearData(year) up to the point where the download is under way
LoadYearData(year) ==
  /\ currentYear' = year
  /\ markers' = <<>>
  /\ claimCount' = 0
  /\ pending' = [pending EXCEPT ![year] = @ + 1]
  /\ UNCHANGED allData

\* before DOMContentLoaded: the script has run, nothing is loaded or shown
Init ==
  /\ allData = <<>>
  /\ currentYear = "2026"
  /\ yearSelect \in Years
  /\ startDateVal = <<>>
  /\ endDateVal = <<>>
  /\ typeSelectVal = <<>>
  /\ markers = <<>>
  /\ claimCount = 0
  /\ pending = [y \in Years |-> 0]
  /\ ready = FALSE

\* the DOMContentLoaded listener: load the year the selector shows
DOMContentLoaded ==
  /\ ~ ready
  /\ ready' = TRUE
  /\ Outstanding < MaxPending
  /\ LoadYearData(yearSelect)
  /\ UNCHANGED <<yearSelect, inputs>>

\* a year change that leaves the type selector as it is
ResetFiltersKeepType ==
  /\ startDateVal' = <<>>
  /\ endDateVal' = <<>>
  /\ UNCHANGED typeSelectVal

\* the three assignments of '' that open the change listener of year-select
ResetFilters ==
  /\ startDateVal' = <<>>
  /\ endDateVal' = <<>>
  /\ typeSelectVal' = <<>>

\* the change listener of year-select: the user picks another year
YearChange(year) ==
  /\ year # yearSelect
  /\ Outstanding < MaxPending
  /\ yearSelect' = year
  /\ ResetFilters
  /\ LoadYearData(year)
  /\ UNCHANGED ready

\* a complete callback that drops the response of a year that is no longer
\* the current one
StoredDataIfCurrent(year, data) ==
  IF year = currentYear THEN PresentRows(data) ELSE allData

\* a complete callback that appends the rows of the response it does not
\* hold yet to the dataset
StoredDataMerged(year, data) ==
  allData \o SelectSeq(PresentRows(data),
                       LAMBDA row : \A i \in DOMAIN allData : allData[i] # row)

\* the value the complete callback of a download of year assigns to allData
StoredData(year, data) == PresentRows(data)

\* a complete callback that stores the rows and does not call applyFilters
LoadCompleteNoRender(year, data) ==
  /\ pending[year] > 0
  /\ pending' = [pending EXCEPT ![year] = @ - 1]
  /\ allData' = StoredData(year, data)
  /\ UNCHANGED <<currentYear, yearSelect, inputs, ready, markers, claimCount>>

\* the complete callback of a download of year, handed the rows data
LoadComplete(year, data) ==
  /\ pending[year] > 0
  /\ pending' = [pending EXCEPT ![year] = @ - 1]
  /\ allData' = StoredData(year, data)
  /\ UNCHANGED <<currentYear, yearSelect, inputs, ready>>
  /\ ApplyFilters(allData')

\* an error callback that empties the dataset and the map
LoadErrorClears(year) ==
  /\ pending[year] > 0
  /\ pending' = [pending EXCEPT ![year] = @ - 1]
  /\ allData' = <<>>
  /\ markers' = <<>>
  /\ claimCount' = 0
  /\ UNCHANGED <<currentYear, yearSelect, inputs, ready>>

\* the error callback of a download of year: a console message and an
\* alert
LoadError(year) ==
  /\ pending[year] > 0
  /\ pending' = [pending EXCEPT ![year] = @ - 1]
  /\ UNCHANGED <<allData, currentYear, yearSelect, inputs, markers,
                 claimCount, ready>>

\* a click listener that fetches the CSV of the current year again
FilterClickReloads ==
  /\ Outstanding < MaxPending
  /\ LoadYearData(currentYear)
  /\ UNCHANGED <<yearSelect, inputs, ready>>

\* the click listener of filter-button
FilterClick ==
  /\ UNCHANGED <<allData, currentYear, yearSelect, inputs, pending, ready>>
  /\ ApplyFilters(allData)

\* the user edits the start-date input
SetStartDate(v) ==
  /\ startDateVal' = v
  /\ UNCHANGED <<allData, currentYear, yearSelect, endDateVal,
                 typeSelectVal, markers, claimCount, pending, ready>>

\* the user edits the end-date input
SetEndDate(v) ==
  /\ endDateVal' = v
  /\ UNCHANGED <<allData, currentYear, yearSelect, startDateVal,
                 typeSelectVal, markers, claimCount, pending, ready>>

\* the user picks a type
SetType(v) ==
  /\ typeSelectVal' = v
  /\ UNCHANGED <<allData, currentYear, yearSelect, startDateVal,
                 endDateVal, markers, claimCount, pending, ready>>

\* the whole page: loads, their callbacks and the user's actions
Next ==
  \/ DOMContentLoaded
  \/ \E year \in Years : YearChange(year)
  \/ \E year \in Years : \E data \in Responses[year] :
       LoadComplete(year, data)
  \/ \E year \in Years : LoadError(year)
  \/ FilterClick
  \/ \E v \in PageDateInputs : SetStartDate(v)
  \/ \E v \in PageDateInputs : SetEndDate(v)
  \/ \E v \in PageTypeInputs : SetType(v)

Spec == Init /\ [][Next]_vars

\* The filter studied on a loaded dataset: the state after the first load
\* of 2025 has completed with any dataset over StudyRows, then the user
\* edits the inputs and clicks the filter button.
FilterInit ==
  /\ allData \in SeqsUpTo(StudyRows, MaxRows)
  /\ currentYear = "2025"
  /\ yearSelect = "2025"
  /\ startDateVal = <<>>
  /\ endDateVal = <<>>
  /\ typeSelectVal = <<>>
  /\ markers = MarkersOf(FilterRows(allData, <<>>, <<>>, <<>>))
  /\ claimCount = PublishedCount(FilterRows(allData, <<>>, <<>>, <<>>))
  /\ pending = [y \in Years |-> 0]
  /\ ready = TRUE

FilterNext ==
  \/ FilterClick
  \/ \E v \in DateInputs : SetStartDate(v)
  \/ \E v \in DateInputs : SetEndDate(v)
  \/ \E v \in TypeInputs : SetType(v)

FilterSpec == FilterInit /\ [][FilterNext]_vars

(***************************************************************************)
(* Properties of the whole page, checked under Spec.                       *)
(***************************************************************************)
\* the rows the markers in ms were made from
MarkerRows(ms) == {ms[i].row : i \in DOMAIN ms}

\* the rows in the array data
RowsIn(data) == {data[i] : i \in DOMAIN data}

\* whether a field of a row is there and reads as a finite number
ReadsFinite(f) == f # <<>> /\ ParseFloatText(f[1]).kind = "num"

\* C1: while a load is outstanding no marker is displayed and the displayed
\* count is zero.
C1_NothingShownDuringLoad ==
  Outstanding > 0 => (markers = <<>> /\ claimCount = 0)

\* C2: no displayed marker is made from a row whose latitude or longitude is
\* missing or does not read as a finite number.
C2_MarkersHaveFiniteCoordinates ==
  \A row \in MarkerRows(markers) :
    ReadsFinite(Cells[row].latitude) /\ ReadsFinite(Cells[row].longitude)

\* C3: the published count is the number of markers displayed.
C3_CountIsMarkersShown == claimCount = Len(markers)

\* C4: after the error callback of a load the dataset is empty.
C4_ErrorLeavesDatasetEmpty ==
  [][(\E year \in Years : LoadError(year)) => allData' = <<>>]_vars

\* the rows of a response that have a latitude and a longitude, in order
RECURSIVE WithBothCoordinates(_)
WithBothCoordinates(data) ==
  IF data = <<>> THEN <<>>
  ELSE LET c == Cells[Head(data)]
       IN IF c.latitude \notin {<<>>, << <<>> >>}
             /\ c.longitude \notin {<<>>, << <<>> >>}
            THEN <<Head(data)>> \o WithBothCoordinates(Tail(data))
            ELSE WithBothCoordinates(Tail(data))

\* C5: the complete callback of every load, also of one that is not for
\* currentYear, stores the rows of its response as the dataset and renders
\* them; no completion is discarded.
C5_LastCompletionWins ==
  [][\A year \in Years : \A data \in Responses[year] :
       LoadComplete(year, data) =>
         /\ allData' = WithBothCoordinates(data)
         /\ MarkerRows(markers') \subseteq RowsIn(data)
         /\ (inputs = <<<<>>, <<>>, <<>>>> => claimCount' = Len(allData'))]_vars

\* C5 witness: no load is outstanding, 2026 was requested last, and the
\* dataset shown is a response for 2025, which completed last.
C5_Witness ==
  /\ Outstanding = 0
  /\ currentYear = "2026"
  /\ allData = <<"Pothole", "BadLat">>
  /\ MarkerRows(markers) = {"Pothole"}
  /\ claimCount = 2

\* C6: a change of the year selector empties the three filter inputs in the
\* step that issues the load of the new year, so before its dataset arrives.
C6_YearChangeResetsFilters ==
  [][yearSelect' # yearSelect =>
       /\ startDateVal' = <<>> /\ endDateVal' = <<>> /\ typeSelectVal' = <<>>
       /\ currentYear' = yearSelect'
       /\ pending'[yearSelect'] = pending[yearSelect'] + 1
       /\ allData' = allData]_vars

\* C6 witness: a year was loaded, then the year was changed: the new load is
\* outstanding and the inputs are empty.
C6_Witness ==
  /\ allData # <<>>
  /\ RowsIn(allData) \subseteq FileRows["2025"]
  /\ currentYear = "2026"
  /\ pending["2026"] = 1
  /\ pending["2025"] = 0
  /\ inputs = <<<<>>, <<>>, <<>>>>
  /\ markers = <<>>

(***************************************************************************)
(* Properties of the filter, checked under FilterSpec.  Every row of       *)
(* StudyRows has coordinates that read as numbers, so the filter result    *)
(* is what the markers show after a click.                                 *)
(***************************************************************************)
\* the trimmed, lowercased type of a row; empty when it has none
TrimmedLowerType(row) ==
  IF Cells[row].type = <<>> THEN <<>>
  ELSE ToLowerCase(Trim(Cells[row].type[1]))

\* the trimmed, lowercased value of the type selector
Selection == ToLowerCase(Trim(typeSelectVal))

\* the type test as C7 states it
ExpectedTypeTest(row) ==
  \/ Selection = <<>>
  \/ /\ Selection = Txt_other
     /\ TrimmedLowerType(row) \notin
          {Txt_pothole, Txt_property_damage, Txt_slip_and_fall,
           Txt_trip_and_fall}
  \/ Selection = TrimmedLowerType(row)

\* whether a date text is a calendar date
IsCalendarDate(text) == DateParseText(text).kind = "time"

\* whether a row has a date that is a calendar date
HasCalendarDate(row) ==
  Cells[row].date # <<>> /\ IsCalendarDate(Cells[row].date[1])

\* year, month and day of a date text YYYY-MM-DD
Ymd(text) ==
  <<NumberAt(text, 1, 4), NumberAt(text, 6, 7), NumberAt(text, 9, 10)>>

\* calendar order: the day a is the day b or an earlier one
NotAfter(a, b) ==
  LET x == Ymd(a)
      y == Ymd(b)
  IN \/ x[1] < y[1]
     \/ (x[1] = y[1] /\ x[2] < y[2])
     \/ (x[1] = y[1] /\ x[2] = y[2] /\ x[3] <= y[3])

\* the date test as C8 states it, for a row whose date is a calendar date;
\* a bound that is set and is no calendar date has no day on or after it
ExpectedDateTest(row) ==
  LET d == Cells[row].date[1]
  IN /\ \/ startDateVal = <<>>
        \/ (IsCalendarDate(startDateVal) /\ NotAfter(startDateVal, d))
     /\ \/ endDateVal = <<>>
        \/ (IsCalendarDate(endDateVal) /\ NotAfter(d, endDateVal))

\* C7: with no date bound, a click shows exactly the rows that pass the type
\* test: the selection is empty, or it is other and the row's trimmed,
\* lowercased type is none of the four standard types, or it equals that
\* type.  'Property Damage ' matches property damage; other matches
\* Bogus, graffiti, Constructor and a row without a type, and not Pothole.
C7_TypeTest ==
  [][(FilterClick /\ startDateVal = <<>> /\ endDateVal = <<>>) =>
       /\ \A row \in RowsIn(allData) :
            row \in MarkerRows(markers') <=> ExpectedTypeTest(row)
       /\ typeSelectVal = Txt_property_damage =>
            MarkerRows(markers') = RowsIn(allData) \cap {"PropertyDamage"}
       /\ typeSelectVal \in {Txt_other, Txt_Other_sp} =>
            MarkerRows(markers') =
              RowsIn(allData) \cap {"Bogus", "Graffiti", "Bare", "Ctor"}]_vars

\* C7 witness: the selection ' Other' on Pothole and Bogus shows Bogus alone.
C7_Witness ==
  /\ allData = <<"Pothole", "Bogus">>
  /\ typeSelectVal = Txt_Other_sp
  /\ startDateVal = <<>>
  /\ endDateVal = <<>>
  /\ MarkerRows(markers) = {"Bogus"}
  /\ claimCount = 1

\* C8: a click shows a row whose date is a calendar date exactly when it
\* passes the type test and (no start bound is set or its date is on or after
\* the start bound) and (no end bound is set or its date is on or before the
\* end bound).  With the start bound 2025-05-01 the row of 2025-03-01 is
\* left out and the row of 2025-06-01 is kept; the row of 2025-05-01 is kept
\* by the bounds 2025-05-01 to 2025-05-01.
C8_DateTest ==
  [][FilterClick =>
       /\ \A row \in RowsIn(allData) :
            HasCalendarDate(row) =>
              (row \in MarkerRows(markers') <=>
                 (ExpectedTypeTest(row) /\ ExpectedDateTest(row)))
       /\ (startDateVal = Txt_2025_05_01 /\ endDateVal = <<>>
             /\ typeSelectVal = <<>>) =>
            MarkerRows(markers') \cap {"Pothole", "Bogus", "PropertyDamage"}
              = RowsIn(allData) \cap {"Bogus", "PropertyDamage"}
       /\ (startDateVal = Txt_2025_05_01 /\ endDateVal = Txt_2025_05_01
             /\ typeSelectVal = <<>>) =>
            MarkerRows(markers') = RowsIn(allData) \cap {"PropertyDamage"}]_vars

\* C8 witness: the start bound 2025-05-01 on Pothole (March) and Bogus (June)
\* shows Bogus alone.
C8_Witness ==
  /\ allData = <<"Pothole", "Bogus">>
  /\ startDateVal = Txt_2025_05_01
  /\ endDateVal = <<>>
  /\ typeSelectVal = <<>>
  /\ MarkerRows(markers) = {"Bogus"}
  /\ claimCount = 1

\* C9: a click shows a row whose date is no calendar date exactly when
\* neither date input is set and the row passes the type test.
C9_CorruptDateRows ==
  [][FilterClick =>
       \A row \in RowsIn(allData) :
         ~ HasCalendarDate(row) =>
           (row \in MarkerRows(markers') <=>
              (startDateVal = <<>> /\ endDateVal = <<>>
                 /\ ExpectedTypeTest(row)))]_vars

\* C9 witness: with a start bound set, graffiti (date N/A) is left out and
\* Pothole is shown.
C9_Witness ==
  /\ allData = <<"Graffiti", "Pothole">>
  /\ startDateVal = Txt_2025_03_01
  /\ endDateVal = <<>>
  /\ typeSelectVal = <<>>
  /\ MarkerRows(markers) = {"Pothole"}
  /\ claimCount = 1

\* a date input as C10 has it read: one that is no calendar date is no bound
AsNoBound(val) == IF IsCalendarDate(val) THEN val ELSE <<>>

\* C10: a click with a date input that is set and is no calendar date shows
\* what it shows with that input empty.
C10_UnparseableInputIsNoBound ==
  [][FilterClick =>
       LET expected == FilterRows(allData, AsNoBound(startDateVal),
                                  AsNoBound(endDateVal), typeSelectVal)
       IN /\ markers' = MarkersOf(expected)
          /\ claimCount' = Len(expected)]_vars

\* the rows the markers in ms were made from, in the order of the markers
ShownRows(ms) == [i \in DOMAIN ms |-> ms[i].row]

\* C11: with the three inputs empty a click hands the whole dataset to the
\* renderer: every row is shown, in the order of the dataset, and the count
\* is the size of the dataset; rows without a type or a readable date too.
C11_EmptyInputsShowAll ==
  [][(FilterClick /\ startDateVal = <<>> /\ endDateVal = <<>>
        /\ typeSelectVal = <<>>) =>
       /\ ShownRows(markers') = allData
       /\ claimCount' = Len(allData)]_vars

\* C11 witness: with empty inputs the row without type and date and the row
\* with the date N/A are both shown, in the order of the dataset.
C11_Witness ==
  /\ allData = <<"Bare", "Graffiti">>
  /\ startDateVal = <<>>
  /\ endDateVal = <<>>
  /\ typeSelectVal = <<>>
  /\ ShownRows(markers) = <<"Bare", "Graffiti">>
  /\ claimCount = 2

\* the display is what a click shows for the dataset and the inputs as they
\* are
ShowsClickResult ==
  LET filtered == FilterRows(allData, startDateVal, endDateVal, typeSelectVal)
  IN markers = MarkersOf(filtered) /\ claimCount = PublishedCount(filtered)

\* C12: filtering is idempotent.  After a click the display is the result of
\* a click, and a click on a display that is the result of a click for the
\* same dataset and inputs changes neither the markers nor the count; the
\* rows a click shows, filtered again by the same inputs, are those rows.
C12_FilterIdempotent ==
  [][FilterClick =>
       /\ ShowsClickResult'
       /\ ShowsClickResult => (markers' = markers /\ claimCount' = claimCount)
       /\ LET shown == ShownRows(markers')
          IN FilterRows(shown, startDateVal, endDateVal, typeSelectVal)
               = shown]_vars

\* C12 witness: the selection pothole on Bogus and Pothole shows Pothole
\* alone.
C12_Witness ==
  /\ allData = <<"Bogus", "Pothole">>
  /\ typeSelectVal = Txt_pothole
  /\ startDateVal = <<>>
  /\ endDateVal = <<>>
  /\ ShownRows(markers) = <<"Pothole">>
  /\ claimCount = 1

(***************************************************************************)
(* Further properties of the whole page, checked under Spec.               *)
(***************************************************************************)
\* C13: a click on the filter button issues no load and leaves the dataset,
\* the current year and the loads outstanding as they are.
C13_ClickIsLocal ==
  [][FilterClick =>
       /\ allData' = allData
       /\ currentYear' = currentYear
       /\ pending' = pending]_vars

\* C13 witness: while the load of 2026 is outstanding a click has shown the
\* dataset of 2025 again; that load is still the only one outstanding.
C13_Witness ==
  /\ currentYear = "2026"
  /\ pending = [year \in Years |-> IF year = "2026" THEN 1 ELSE 0]
  /\ allData = <<"Pothole">>
  /\ ShownRows(markers) = <<"Pothole">>
  /\ claimCount = 1

\* C14: every row of the dataset has a latitude and a longitude that both
\* read as finite numbers.
C14_DatasetHasFiniteCoordinates ==
  \A row \in RowsIn(allData) :
    ReadsFinite(Cells[row].latitude) /\ ReadsFinite(Cells[row].longitude)

\* C15: a complete callback replaces the dataset and merges nothing: the
\* dataset is then the rows of the response that have both a latitude and a
\* longitude, in the order of the response, and a row the dataset held
\* before is in it only if the response holds it.
C15_CompletionReplacesDataset ==
  [][\A year \in Years : \A data \in Responses[year] :
       LoadComplete(year, data) =>
         /\ allData' = WithBothCoordinates(data)
         /\ \A row \in RowsIn(allData) \ RowsIn(data) :
              row \notin RowsIn(allData')
         /\ Len(allData') <= Len(data)]_vars

\* C15 witness: 2026 is picked and its download has completed: the dataset
\* is the rows of its response, rows of 2026 alone.
C15_Witness ==
  /\ Outstanding = 0
  /\ ready
  /\ yearSelect = "2026"
  /\ currentYear = "2026"
  /\ allData = <<"InfLat", "Pothole26">>
  /\ claimCount = 2

\* the type and date tests as C7, C8 and C9 state them, of a row on the
\* values startVal, endVal and typeVal of the inputs
PassesOn(row, startVal, endVal, typeVal) ==
  LET selection == ToLowerCase(Trim(typeVal))
      type == TrimmedLowerType(row)
      date == Cells[row].date
      dated == date # <<>> /\ IsCalendarDate(date[1])
  IN /\ \/ selection = <<>>
        \/ /\ selection = Txt_other
           /\ type \notin {Txt_pothole, Txt_property_damage,
                            Txt_slip_and_fall, Txt_trip_and_fall}
        \/ selection = type
     /\ \/ startVal = <<>>
        \/ dated /\ IsCalendarDate(startVal) /\ NotAfter(startVal, date[1])
     /\ \/ endVal = <<>>
        \/ dated /\ IsCalendarDate(endVal) /\ NotAfter(date[1], endVal)

\* PassesOn, for each row and each value of the inputs
passesOn ==
  [row \in AllRows |-> [startVal \in DateInputs |-> [endVal \in DateInputs |->
     [typeVal \in TypeInputs |-> PassesOn(row, startVal, endVal, typeVal)]]]]

\* whether a field of a row is there and reads as a number, finite or not
ReadsNumber(f) == f # <<>> /\ ParseFloatText(f[1]).kind # "nan"

\* C16: a complete callback stores the dataset and renders it in one step,
\* filtered by the inputs as they are at that step: the markers then are of
\* the rows of the new dataset that pass the type and date tests on those
\* inputs (and have coordinates that read as numbers), and the count is the
\* number of rows that pass.
C16_CompletionRendersCurrentInputs ==
  [][\A year \in Years : \A data \in Responses[year] :
       LoadComplete(year, data) =>
         LET passing ==
               {row \in RowsIn(allData') :
                  passesOn[row][startDateVal'][endDateVal'][typeSelectVal']}
         IN /\ MarkerRows(markers') =
                 {row \in passing : /\ ReadsNumber(Cells[row].latitude)
                                    /\ ReadsNumber(Cells[row].longitude)}
            /\ Len(markers') = Cardinality(MarkerRows(markers'))
            /\ claimCount' = Cardinality(passing)]_vars

\* C16 witness: the type other was picked while the download of 2026 was
\* under way; its completion shows the Bogus row and not the Pothole row.
C16_Witness ==
  /\ Outstanding = 0
  /\ currentYear = "2026"
  /\ typeSelectVal = Txt_other
  /\ startDateVal = <<>>
  /\ endDateVal = <<>>
  /\ allData = <<"Pothole26", "InfLat">>
  /\ ShownRows(markers) = <<"InfLat">>
  /\ claimCount = 1

\* C17: the error callback of a load leaves the dataset, the markers, the
\* count and the three inputs as they were, and the page goes on: a click on
\* the filter button and a change of the year are possible after it.
C17_ErrorChangesNothing ==
  [][(\E year \in Years : LoadError(year)) =>
       /\ allData' = allData
       /\ markers' = markers
       /\ claimCount' = claimCount
       /\ inputs' = inputs
       /\ (ENABLED FilterClick)'
       /\ (ENABLED (\E year \in Years : YearChange(year)))']_vars

\* C17 witness: 2025 was shown, 2026 was picked and its download failed: the
\* dataset of 2025 is still held, the map is as the failed load cleared it.
C17_Witness ==
  /\ Outstanding = 0
  /\ yearSelect = "2026"
  /\ currentYear = "2026"
  /\ allData = <<"Pothole">>
  /\ inputs = <<<<>>, <<>>, <<>>>>
  /\ markers = <<>>
  /\ claimCount = 0

\* C20: under every interleaving of year changes, clicks, completions and
\* errors, every marker displayed is made from a row that is in the dataset
\* now, and the count displayed is at most the size of the dataset.
C20_DisplayIsOfDataset ==
  /\ MarkerRows(markers) \subseteq RowsIn(allData)
  /\ claimCount <= Len(allData)

\* C20 witness: the dataset of 2025 holds a row that gets no marker and one
\* that does; the marker shown is of a row of the dataset and the count is
\* its size.
C20_Witness ==
  /\ Outstanding = 0
  /\ currentYear = "2025"
  /\ allData = <<"BadLat", "Pothole">>
  /\ ShownRows(markers) = <<"Pothole">>
  /\ claimCount = 2

(***************************************************************************)
(* Further properties of the filter, checked under FilterSpec.             *)
(***************************************************************************)
\* the place of a row in an array that holds it
IndexIn(data, row) == CHOOSE k \in DOMAIN data : data[k] = row

\* C18: what a click shows is a subsequence of the dataset: exactly the rows
\* that pass the type and date tests on the inputs, each once, in the order
\* they have in the dataset.
C18_ResultIsSubsequence ==
  [][FilterClick =>
       LET shown == ShownRows(markers')
       IN /\ RowsIn(shown) =
               {row \in RowsIn(allData) :
                  passesOn[row][startDateVal][endDateVal][typeSelectVal]}
          /\ \A i, j \in DOMAIN shown :
               i < j => IndexIn(allData, shown[i]) < IndexIn(allData, shown[j])
          /\ claimCount' = Len(shown)]_vars

\* C18 witness: with the start bound 2025-05-01 the rows of May and June are
\* both shown, May first as in the dataset.
C18_Witness ==
  /\ allData = <<"PropertyDamage", "Bogus">>
  /\ startDateVal = Txt_2025_05_01
  /\ endDateVal = <<>>
  /\ typeSelectVal = <<>>
  /\ ShownRows(markers) = <<"PropertyDamage", "Bogus">>
  /\ claimCount = 2

\* the colour of a row as C19 states it
ColorAsStated(row) ==
  LET type == TrimmedLowerType(row)
  IN IF type = Txt_pothole THEN "red"
     ELSE IF type = Txt_property_damage THEN "orange"
     ELSE IF type = Txt_slip_and_fall THEN "blue"
     ELSE IF type = Txt_trip_and_fall THEN "green"
     ELSE "gray"

\* C19: every marker has the colour mapped to the trimmed, lowercased type
\* of its row when that is one of the four standard types, and the colour of
\* other for every other type, a missing one too.
C19_MarkerColors ==
  \A i \in DOMAIN markers : markers[i].color = ColorAsStated(markers[i].row)

====
